---- MODULE Spec2Model ----
(***************************************************************************)
(* Model of the Firestore value decoder (UserDataWriter, user_data_writer.ts) *)
(* and of the lite FieldValue sentinels (FieldValueDelegate and the five    *)
(* factory functions).                                                      *)
(*                                                                          *)
(* A convertValue call is modelled by the operator convertValue, which      *)
(* returns an Outcome: the returned host value or the thrown error, plus    *)
(* the side effects of the call in program order (logError emissions and    *)
(* referenceFactory invocations).                                           *)
(***************************************************************************)
EXTENDS Integers, Sequences, FiniteSets, TLC

\* Bounds of the model.
\* The length of previousValue chains.
MaxDepth == 2
\* The length of arrays, of maps and of sentinel element lists.
MaxLen == 2

(***************************************************************************)
(* JavaScript values the decoder reads from the wire object.                *)
(***************************************************************************)
Undefined == [js |-> "undefined"]
JsNumber(n) == [js |-> "number", n |-> n]
JsString(s) == [js |-> "string", s |-> s]

\* JavaScript truthiness, as used by the || operator.
Truthy(x) ==
  CASE x.js = "undefined" -> FALSE
    [] x.js = "number" -> x.n # 0
    [] x.js = "string" -> x.s # ""
    [] OTHER -> TRUE

\* a || b
JsOr(a, b) == IF Truthy(a) THEN a ELSE b

\* value.<field> : undefined when the property is not set.
Get(obj, field) == IF field \in DOMAIN obj THEN obj[field] ELSE Undefined

\* Number(s) for the decimal strings of the model.
ParseNumber(s) ==
  CASE s = "" -> 0
    [] s = "0" -> 0
    [] s = "3" -> 3
    [] s = "5" -> 5
    [] s = "7" -> 7
    [] s = "9" -> 9

\* normalizeNumber of model/values: a number is returned as it is, a string
\* is parsed, anything else is 0.
normalizeNumber(x) ==
  CASE x.js = "number" -> x.n
    [] x.js = "string" -> ParseNumber(x.s)
    [] OTHER -> 0

\* normalizeTimestamp of model/values, for the object form {seconds, nanos}.
normalizeTimestamp(ts) ==
  [seconds |-> normalizeNumber(Get(ts, "seconds")),
   nanos |-> normalizeNumber(Get(ts, "nanos"))]

\* normalizeByteString: the base64 wire string becomes a ByteString.
normalizeByteString(b) == [binaryString |-> b]

(***************************************************************************)
(* Host values. Every host value is a record with a field t.                *)
(***************************************************************************)
HostNull == [t |-> "null"]
HostBoolean(b) == [t |-> "boolean", v |-> b]
HostNumber(n) == [t |-> "number", v |-> n]
HostString(s) == [t |-> "string", v |-> s]
Timestamp(seconds, nanoseconds) ==
  [t |-> "Timestamp", seconds |-> seconds, nanoseconds |-> nanoseconds]
GeoPoint(latitude, longitude) ==
  [t |-> "GeoPoint", latitude |-> latitude, longitude |-> longitude]
HostArray(elems) == [t |-> "array", elems |-> elems]
HostObject(entries) == [t |-> "object", entries |-> entries]

\* The two injected factories. They see their argument only.
referenceFactory(key) == [t |-> "reference", key |-> key]
bytesFactory(bytes) == [t |-> "Bytes", bytes |-> bytes]

(***************************************************************************)
(* Resource paths.  A resource name string is a sequence of tokens, each    *)
(* the separator "/" or a run of other characters.                          *)
(***************************************************************************)
RECURSIVE SplitAcc(_, _, _)
SplitAcc(name, cur, acc) ==
  IF name = <<>> THEN Append(acc, cur)
  ELSE IF Head(name) = "/" THEN SplitAcc(Tail(name), "", Append(acc, cur))
  ELSE SplitAcc(Tail(name), Head(name), acc)

\* name.split('/')
Split(name) == SplitAcc(name, "", <<>>)

\* ResourcePath.fromString: split on '/', drop the empty segments.
fromString(name) == SelectSeq(Split(name), LAMBDA s : s # "")

\* path.get(i), 0-based.
PathGet(path, i) == path[i + 1]

\* path.popFirst(size)
popFirst(path, size) == SubSeq(path, size + 1, Len(path))

\* isValidResourceName of remote/serializer.
isValidResourceName(path) ==
  /\ Len(path) >= 4
  /\ PathGet(path, 0) = "projects"
  /\ PathGet(path, 2) = "databases"

DatabaseId(projectId, database) == [projectId |-> projectId, database |-> database]
DatabaseIdIsEqual(a, b) == a.projectId = b.projectId /\ a.database = b.database
DocumentKey(path) == [path |-> path]

(***************************************************************************)
(* Outcomes of a call.                                                      *)
(***************************************************************************)
NoValue == [t |-> "no value"]
NoError == [assertion |-> "none"]

Return(v) ==
  [ok |-> TRUE, val |-> v, err |-> NoError, logs |-> <<>>, refs |-> <<>>]
\* fail(...) / a failed hardAssert(...)
Throw(e) ==
  [ok |-> FALSE, val |-> NoValue, err |-> e, logs |-> <<>>, refs |-> <<>>]

\* F applied to the value of e, with e evaluated once.
Bind(e, F(_)) == CHOOSE y \in {F(r) : r \in {e}} : TRUE

\* The effects of `first` happened before `then` ran.
After(first, then) ==
  [then EXCEPT !.logs = first.logs \o @, !.refs = first.refs \o @]

(***************************************************************************)
(* Wire values (ProtoValue).  A wire value is a record; the property that   *)
(* is set names its variant.  A pending server timestamp carries its        *)
(* metadata under serverTimestampValue: localWriteTime always, and          *)
(* previousValue when the field had a value before.                         *)
(***************************************************************************)
TypeOrder ==
  {"NullValue", "BooleanValue", "NumberValue", "TimestampValue",
   "ServerTimestampValue", "StringValue", "BlobValue", "RefValue",
   "GeoPointValue", "ArrayValue", "ObjectValue"}

\* typeOrder of model/values: the variant of a wire value, none of the
\* eleven for an unrecognised shape.
typeOrder(value) ==
  CASE "nullValue" \in DOMAIN value -> "NullValue"
    [] "booleanValue" \in DOMAIN value -> "BooleanValue"
    [] "integerValue" \in DOMAIN value \/ "doubleValue" \in DOMAIN value -> "NumberValue"
    [] "timestampValue" \in DOMAIN value -> "TimestampValue"
    [] "serverTimestampValue" \in DOMAIN value -> "ServerTimestampValue"
    [] "stringValue" \in DOMAIN value -> "StringValue"
    [] "bytesValue" \in DOMAIN value -> "BlobValue"
    [] "referenceValue" \in DOMAIN value -> "RefValue"
    [] "geoPointValue" \in DOMAIN value -> "GeoPointValue"
    [] "arrayValue" \in DOMAIN value -> "ArrayValue"
    [] "mapValue" \in DOMAIN value -> "ObjectValue"
    [] OTHER -> "Unrecognised"

\* getPreviousValue of model/server_timestamps: null when there is none.
NullPrevious == [absent |-> TRUE]
getPreviousValue(value) ==
  IF "previousValue" \in DOMAIN value.serverTimestampValue
  THEN value.serverTimestampValue.previousValue
  ELSE NullPrevious

\* getLocalWriteTime of model/server_timestamps.
getLocalWriteTime(value) == value.serverTimestampValue.localWriteTime

\* arrayValue.values || []
ValuesOrEmpty(arrayValue) ==
  IF "values" \in DOMAIN arrayValue THEN arrayValue.values ELSE <<>>

\* mapValue.fields || {} : the entries of the object, in property order.
FieldsOrEmpty(mapValue) ==
  IF "fields" \in DOMAIN mapValue THEN mapValue.fields ELSE <<>>

\* result[key] = value on an object kept as its entries in property order.
ObjSet(entries, key, val) ==
  IF \E i \in 1..Len(entries) : entries[i].key = key
  THEN [i \in 1..Len(entries) |->
          IF entries[i].key = key THEN [key |-> key, value |-> val] ELSE entries[i]]
  ELSE Append(entries, [key |-> key, value |-> val])

(***************************************************************************)
(* UserDataWriter.  db is the databaseId the writer was constructed with.   *)
(***************************************************************************)
RECURSIVE convertValue(_, _, _)

\* UserDataWriter.convertTimestamp
convertTimestamp(value) ==
  LET normalizedValue == normalizeTimestamp(value)
  IN Timestamp(normalizedValue.seconds, normalizedValue.nanos)

\* UserDataWriter.convertGeoPoint
convertGeoPoint(value) ==
  GeoPoint(normalizeNumber(Get(value, "latitude")),
           normalizeNumber(Get(value, "longitude")))

\* The NumberValue case of convertValue.
convertNumber(value) ==
  normalizeNumber(JsOr(Get(value, "integerValue"), Get(value, "doubleValue")))

\* The message logError receives for a reference into another database.
ForeignReferenceLog(key, databaseId, db) ==
  [key |-> key, foreign |-> databaseId, current |-> db]

\* convertReference failing on a reference into another database instead of
\* logging and going on.
convertReference_strict(db, name) ==
  LET resourcePath == fromString(name)
  IN IF ~isValidResourceName(resourcePath)
     THEN Throw([assertion |-> "ReferenceValue is not valid", name |-> name])
     ELSE LET databaseId == DatabaseId(PathGet(resourcePath, 1), PathGet(resourcePath, 3))
              key == DocumentKey(popFirst(resourcePath, 5))
          IN IF ~DatabaseIdIsEqual(databaseId, db)
             THEN Throw([assertion |-> "foreign reference", name |-> name])
             ELSE [Return(referenceFactory(key)) EXCEPT !.refs = <<key>>]

\* UserDataWriter.convertReference
convertReference(db, name) ==
  LET resourcePath == fromString(name)
  IN IF ~isValidResourceName(resourcePath)
     THEN Throw([assertion |-> "ReferenceValue is not valid", name |-> name])
     ELSE LET databaseId == DatabaseId(PathGet(resourcePath, 1), PathGet(resourcePath, 3))
              key == DocumentKey(popFirst(resourcePath, 5))
          IN [Return(referenceFactory(key)) EXCEPT
                !.logs = IF ~DatabaseIdIsEqual(databaseId, db)
                         THEN <<ForeignReferenceLog(key, databaseId, db)>>
                         ELSE <<>>,
                !.refs = <<key>>]

\* The map callback of convertArray with a failed element replaced by null.
RECURSIVE MapConvert_default(_, _, _, _)
MapConvert_default(db, values, serverTimestampBehavior, acc) ==
  IF values = <<>> THEN acc
  ELSE LET r == convertValue(db, Head(values), serverTimestampBehavior)
           e == IF r.ok THEN r ELSE After(r, Return(HostNull))
       IN MapConvert_default(db, Tail(values), serverTimestampBehavior,
            After(acc, [e EXCEPT !.val = Append(acc.val, e.val)]))

\* Array.prototype.map over values[i..], with the callback of convertArray;
\* acc holds the elements converted so far and their effects.
RECURSIVE MapConvert(_, _, _, _)
MapConvert(db, values, serverTimestampBehavior, acc) ==
  IF values = <<>> THEN acc
  ELSE Bind(convertValue(db, Head(values), serverTimestampBehavior),
         LAMBDA r :
           IF r.ok
           THEN MapConvert(db, Tail(values), serverTimestampBehavior,
                  After(acc, [r EXCEPT !.val = Append(acc.val, r.val)]))
           ELSE After(acc, r))

\* convertArray decoding its elements with the default behavior instead of
\* the caller's.
convertArray_defaultBehavior(db, arrayValue, serverTimestampBehavior) ==
  Bind(MapConvert(db, ValuesOrEmpty(arrayValue), "none", Return(<<>>)),
       LAMBDA r : IF r.ok THEN [r EXCEPT !.val = HostArray(r.val)] ELSE r)

\* UserDataWriter.convertArray
convertArray(db, arrayValue, serverTimestampBehavior) ==
  Bind(MapConvert(db, ValuesOrEmpty(arrayValue), serverTimestampBehavior, Return(<<>>)),
       LAMBDA r : IF r.ok THEN [r EXCEPT !.val = HostArray(r.val)] ELSE r)

\* forEach over the entries of fields, with the callback of convertObject.
RECURSIVE ForEachConvert(_, _, _, _)
ForEachConvert(db, fields, serverTimestampBehavior, acc) ==
  IF fields = <<>> THEN acc
  ELSE Bind(convertValue(db, Head(fields).value, serverTimestampBehavior),
         LAMBDA r :
           IF r.ok
           THEN ForEachConvert(db, Tail(fields), serverTimestampBehavior,
                  After(acc, [r EXCEPT !.val = ObjSet(acc.val, Head(fields).key, r.val)]))
           ELSE After(acc, r))

\* UserDataWriter.convertObject
convertObject(db, mapValue, serverTimestampBehavior) ==
  Bind(ForEachConvert(db, FieldsOrEmpty(mapValue), serverTimestampBehavior, Return(<<>>)),
       LAMBDA r : IF r.ok THEN [r EXCEPT !.val = HostObject(r.val)] ELSE r)

\* convertServerTimestamp with the `return null` of the 'previous' case lost:
\* a value with no previous value falls through to the 'estimate' case.
convertServerTimestamp_fallthrough(db, value, serverTimestampBehavior) ==
  CASE serverTimestampBehavior = "previous" /\ getPreviousValue(value) # NullPrevious ->
         convertValue(db, getPreviousValue(value), serverTimestampBehavior)
    [] serverTimestampBehavior \in {"previous", "estimate"} ->
         Return(convertTimestamp(getLocalWriteTime(value)))
    [] OTHER -> Return(HostNull)

\* convertServerTimestamp decoding the previous value before it looks at the
\* behavior.
convertServerTimestamp_eager(db, value, serverTimestampBehavior) ==
  LET previousValue == getPreviousValue(value)
      previous == IF previousValue = NullPrevious
                  THEN Return(HostNull)
                  ELSE convertValue(db, previousValue, serverTimestampBehavior)
  IN IF ~previous.ok THEN previous
     ELSE CASE serverTimestampBehavior = "previous" -> previous
            [] serverTimestampBehavior = "estimate" ->
                 After(previous, Return(convertTimestamp(getLocalWriteTime(value))))
            [] OTHER -> After(previous, Return(HostNull))

\* convertServerTimestamp that does not follow a previous value that is itself
\* a pending server timestamp.
convertServerTimestamp_unchained(db, value, serverTimestampBehavior) ==
  CASE serverTimestampBehavior = "previous" ->
         LET previousValue == getPreviousValue(value)
         IN IF previousValue = NullPrevious
               \/ typeOrder(previousValue) = "ServerTimestampValue"
            THEN Return(HostNull)
            ELSE convertValue(db, previousValue, serverTimestampBehavior)
    [] serverTimestampBehavior = "estimate" ->
         Return(convertTimestamp(getLocalWriteTime(value)))
    [] OTHER -> Return(HostNull)

\* UserDataWriter.convertServerTimestamp
convertServerTimestamp(db, value, serverTimestampBehavior) ==
  CASE serverTimestampBehavior = "previous" ->
         LET previousValue == getPreviousValue(value)
         IN IF previousValue = NullPrevious
            THEN Return(HostNull)
            ELSE convertValue(db, previousValue, serverTimestampBehavior)
    [] serverTimestampBehavior = "estimate" ->
         Return(convertTimestamp(getLocalWriteTime(value)))
    [] OTHER -> Return(HostNull)

\* UserDataWriter.convertValue
convertValue(db, value, serverTimestampBehavior) ==
  LET order == typeOrder(value)
  IN CASE order = "NullValue" -> Return(HostNull)
       [] order = "BooleanValue" -> Return(HostBoolean(value.booleanValue))
       [] order = "NumberValue" -> Return(HostNumber(convertNumber(value)))
       [] order = "TimestampValue" -> Return(convertTimestamp(value.timestampValue))
       [] order = "ServerTimestampValue" ->
            convertServerTimestamp(db, value, serverTimestampBehavior)
       [] order = "StringValue" -> Return(HostString(value.stringValue))
       [] order = "BlobValue" ->
            Return(bytesFactory(normalizeByteString(value.bytesValue)))
       [] order = "RefValue" -> convertReference(db, value.referenceValue)
       [] order = "GeoPointValue" -> Return(convertGeoPoint(value.geoPointValue))
       [] order = "ArrayValue" ->
            convertArray(db, value.arrayValue, serverTimestampBehavior)
       [] order = "ObjectValue" ->
            convertObject(db, value.mapValue, serverTimestampBehavior)
       [] OTHER -> Throw([assertion |-> "Invalid value type", value |-> value])

(***************************************************************************)
(* The wire values the decoder is called with.                              *)
(***************************************************************************)
\* The resource name string with the given segments.
RECURSIVE Join(_)
Join(segments) ==
  IF Len(segments) <= 1 THEN segments
  ELSE <<Head(segments), "/">> \o Join(Tail(segments))

ResourceName(projectId, database, documentPath) ==
  Join(<<"projects", projectId, "databases", database, "documents">> \o documentPath)

DatabaseIds == {DatabaseId("P", "D"), DatabaseId("P", "D2")}

\* The references of the model: a resource name and what it was built from.
Reference(name, projectId, database, documentPath) ==
  [name |-> name, projectId |-> projectId, database |-> database,
   documentPath |-> documentPath]

ValidReferences ==
  {Reference(ResourceName(d.projectId, d.database, <<"coll", "doc">>),
             d.projectId, d.database, <<"coll", "doc">>) :
      d \in DatabaseIds \cup {DatabaseId("Q", "D")}}
  \cup {Reference(ResourceName("P", "D", <<"coll", "doc", "sub", "doc2">>),
                  "P", "D", <<"coll", "doc", "sub", "doc2">>),
        Reference(<<"/">> \o ResourceName("P", "D2", <<"coll", "doc">>) \o <<"/">>,
                  "P", "D2", <<"coll", "doc">>)}

ValidNames == {r.name : r \in ValidReferences}

InvalidNames ==
  {Join(<<"coll", "doc">>),
   Join(<<"projects", "P", "databases">>),
   Join(<<"projectz", "P", "databases", "D", "documents", "coll", "doc">>),
   Join(<<"projects", "P", "database", "D", "documents", "coll", "doc">>)}

NullValue == [nullValue |-> "NULL_VALUE"]
RefValue(name) == [referenceValue |-> name]
UnrecognisedValue == [unknownValue |-> "x"]
ArrayValue(values) == [arrayValue |-> [values |-> values]]
MapValue(fields) == [mapValue |-> [fields |-> fields]]
\* An arrayValue / mapValue message with its repeated field not set.
ArrayValueUnset == [arrayValue |-> [unset |-> TRUE]]
MapValueUnset == [mapValue |-> [unset |-> TRUE]]
LocalWriteTimes ==
  {[seconds |-> JsString("5"), nanos |-> JsNumber(9)],
   [seconds |-> JsNumber(7), nanos |-> JsNumber(0)]}
ServerTimestampNoPrevious(lwt) ==
  [serverTimestampValue |-> [localWriteTime |-> lwt]]
ServerTimestampWithPrevious(lwt, previous) ==
  [serverTimestampValue |-> [localWriteTime |-> lwt, previousValue |-> previous]]

IntegerReps == {JsNumber(0), JsNumber(7), JsString("0"), JsString("7")}
DoubleReps == {JsNumber(0), JsNumber(3), JsNumber(7)}

NumberValues ==
  {[integerValue |-> i] : i \in IntegerReps}
  \cup {[doubleValue |-> d] : d \in DoubleReps}
  \cup {[integerValue |-> i, doubleValue |-> d] : i \in IntegerReps, d \in {JsNumber(3)}}

ScalarValues ==
  {NullValue, [booleanValue |-> TRUE], [booleanValue |-> FALSE],
   [stringValue |-> "text"], [bytesValue |-> "YQ=="],
   [geoPointValue |-> [latitude |-> JsNumber(3), longitude |-> JsString("5")]],
   UnrecognisedValue}
  \cup NumberValues
  \cup {[timestampValue |-> ts] : ts \in LocalWriteTimes}
  \cup {RefValue(n) : n \in ValidNames \cup InvalidNames}

\* The leaves nested values are built from.
Core0 ==
  {NullValue, UnrecognisedValue,
   RefValue(ResourceName("Q", "D", <<"coll", "doc">>)),
   RefValue(Join(<<"coll", "doc">>))}

\* The other elements of a container that holds one nested value.
Shallow ==
  {RefValue(ResourceName("Q", "D", <<"coll", "doc">>)),
   RefValue(Join(<<"coll", "doc">>))}

TheLocalWriteTime == [seconds |-> JsString("5"), nanos |-> JsNumber(9)]

\* A one-element array and a one-field map around each value of S.
Wrapped(S) ==
  {ArrayValue(<<x>>) : x \in S}
  \cup {MapValue(<<[key |-> "a", value |-> x]>>) : x \in S}

\* The previousValue chains of at most d server timestamps, each ending in a
\* value of ends or in a server timestamp without previous value.
RECURSIVE Chains(_, _)
Chains(d, ends) ==
  IF d = 0 THEN {}
  ELSE {ServerTimestampNoPrevious(TheLocalWriteTime)}
       \cup {ServerTimestampWithPrevious(TheLocalWriteTime, p) :
               p \in ends \cup Chains(d - 1, ends)}

Nested ==
  Core0
  \cup Chains(MaxDepth, Core0 \cup Wrapped(Core0))
  \cup Wrapped(Core0 \cup Chains(MaxDepth, Core0))

\* The sequences of length n with one element of deep, the others all the
\* same element of shallow.
SeqsWithOneDeep(n, shallow, deep) ==
  {[i \in 1..n |-> IF i = k THEN x ELSE s] :
      s \in shallow, k \in 1..n, x \in deep}

Keys == <<"a", "b", "c", "d">>
\* The two property orders of the first n keys the model uses.
KeyOrders(n) ==
  {[i \in 1..n |-> Keys[i]], [i \in 1..n |-> Keys[n + 1 - i]]}

FieldsOf(keys, values) ==
  [i \in 1..Len(keys) |-> [key |-> keys[i], value |-> values[i]]]

ContainersOver(shallow, deep) ==
  {ArrayValueUnset, MapValueUnset, ArrayValue(<<>>), MapValue(<<>>)}
  \cup UNION {{ArrayValue(s) : s \in SeqsWithOneDeep(n, shallow, deep)} : n \in 1..MaxLen}
  \cup UNION {{MapValue(FieldsOf(ks, s)) :
                 ks \in KeyOrders(n), s \in SeqsWithOneDeep(n, shallow, deep)} :
              n \in 1..MaxLen}

WireValues ==
  ScalarValues
  \cup Nested
  \cup {ServerTimestampNoPrevious(l) : l \in LocalWriteTimes}
  \cup {ServerTimestampWithPrevious(l, p) : l \in LocalWriteTimes, p \in Core0}
  \cup ContainersOver(Shallow, Nested)

ServerTimestampBehaviors == {"estimate", "previous", "none"}

(***************************************************************************)
(* FieldValue sentinels (lite/src/api/field_value.ts).                      *)
(***************************************************************************)
\* The outcome of a factory call: news lists the objects constructed.
FvReturn(v, news) == [ok |-> TRUE, val |-> v, err |-> NoError, news |-> news]
FvThrow(e) == [ok |-> FALSE, val |-> NoValue, err |-> e, news |-> <<>>]

\* The _SerializableFieldValue implementations of src/api/field_value.
DeleteFieldValueImpl(methodName) ==
  [class |-> "DeleteFieldValueImpl", _methodName |-> methodName]
ServerTimestampFieldValueImpl(methodName) ==
  [class |-> "ServerTimestampFieldValueImpl", _methodName |-> methodName]
ArrayUnionFieldValueImpl(methodName, elements) ==
  [class |-> "ArrayUnionFieldValueImpl", _methodName |-> methodName,
   _elements |-> elements]
ArrayRemoveFieldValueImpl(methodName, elements) ==
  [class |-> "ArrayRemoveFieldValueImpl", _methodName |-> methodName,
   _elements |-> elements]
NumericIncrementFieldValueImpl(methodName, n) ==
  [class |-> "NumericIncrementFieldValueImpl", _methodName |-> methodName,
   _operand |-> n]

\* The payload of an implementation: everything but its class and name.
Payload(impl) ==
  CASE impl.class \in {"ArrayUnionFieldValueImpl", "ArrayRemoveFieldValueImpl"} ->
         [elements |-> impl._elements]
    [] impl.class = "NumericIncrementFieldValueImpl" -> [operand |-> impl._operand]
    [] OTHER -> [nothing |-> TRUE]

\* isEqual of the implementations: same variant, structurally equal payload.
ImplIsEqual(impl, other) ==
  /\ "class" \in DOMAIN other
  /\ other.class = impl.class
  /\ Payload(other) = Payload(impl)

\* The parse of a raw element in a context.
ParseElement(context, e) == [parsed |-> e, databaseId |-> context.databaseId]

NullTransform == [transform |-> "null"]

\* _toFieldTransform of the implementations.
ImplToFieldTransform(impl, context) ==
  CASE impl.class = "DeleteFieldValueImpl" -> NullTransform
    [] impl.class = "ServerTimestampFieldValueImpl" ->
         [transform |-> "serverTimestamp", field |-> context.path]
    [] impl.class = "ArrayUnionFieldValueImpl" ->
         [transform |-> "arrayUnion", field |-> context.path,
          elements |-> [i \in 1..Len(impl._elements) |->
                          ParseElement(context, impl._elements[i])]]
    [] impl.class = "ArrayRemoveFieldValueImpl" ->
         [transform |-> "arrayRemove", field |-> context.path,
          elements |-> [i \in 1..Len(impl._elements) |->
                          ParseElement(context, impl._elements[i])]]
    [] impl.class = "NumericIncrementFieldValueImpl" ->
         [transform |-> "increment", field |-> context.path,
          operand |-> impl._operand]

\* validateAtLeastNumberOfArgs: TRUE when the call passes the validation.
validateAtLeastNumberOfArgs(functionName, args, minNumberOfArgs) ==
  Len(args) >= minNumberOfArgs

InvalidArgument(functionName) ==
  [assertion |-> "invalid-argument", functionName |-> functionName]

\* new FieldValueDelegate(_delegate)
FieldValueDelegate(delegate) ==
  [class |-> "FieldValueDelegate", _methodName |-> delegate._methodName,
   _delegate |-> delegate]

\* _toFieldTransform answering for a server timestamp whatever it wraps.
FieldValueDelegate_toFieldTransform_fixed(this, context) ==
  ImplToFieldTransform(ServerTimestampFieldValueImpl("serverTimestamp"), context)

\* FieldValueDelegate._toFieldTransform
FieldValueDelegate_toFieldTransform(this, context) ==
  ImplToFieldTransform(this._delegate, context)

\* other instanceof FieldValueDelegate
InstanceOfFieldValueDelegate(other) ==
  "class" \in DOMAIN other /\ other.class = "FieldValueDelegate"

\* isEqual without the instanceof test: any object with a _delegate is compared.
FieldValueDelegate_isEqual_anyWrapper(this, other) ==
  IF "_delegate" \notin DOMAIN other
  THEN FALSE
  ELSE ImplIsEqual(this._delegate, other._delegate)

\* FieldValueDelegate.isEqual
FieldValueDelegate_isEqual(this, other) ==
  IF ~InstanceOfFieldValueDelegate(other)
  THEN FALSE
  ELSE ImplIsEqual(this._delegate, other._delegate)

deleteField ==
  FvReturn(FieldValueDelegate(DeleteFieldValueImpl("deleteField")),
           <<"DeleteFieldValueImpl", "FieldValueDelegate">>)

serverTimestamp ==
  FvReturn(FieldValueDelegate(ServerTimestampFieldValueImpl("serverTimestamp")),
           <<"ServerTimestampFieldValueImpl", "FieldValueDelegate">>)

\* arrayUnion without the argument count validation.
arrayUnion_unvalidated(elements) ==
  FvReturn(FieldValueDelegate(ArrayUnionFieldValueImpl("arrayUnion", elements)),
           <<"ArrayUnionFieldValueImpl", "FieldValueDelegate">>)

arrayUnion(elements) ==
  IF ~validateAtLeastNumberOfArgs("arrayUnion()", elements, 1)
  THEN FvThrow(InvalidArgument("arrayUnion()"))
  ELSE FvReturn(FieldValueDelegate(ArrayUnionFieldValueImpl("arrayUnion", elements)),
                <<"ArrayUnionFieldValueImpl", "FieldValueDelegate">>)

arrayRemove(elements) ==
  IF ~validateAtLeastNumberOfArgs("arrayRemove()", elements, 1)
  THEN FvThrow(InvalidArgument("arrayRemove()"))
  ELSE FvReturn(FieldValueDelegate(ArrayRemoveFieldValueImpl("arrayRemove", elements)),
                <<"ArrayRemoveFieldValueImpl", "FieldValueDelegate">>)

increment(n) ==
  FvReturn(FieldValueDelegate(NumericIncrementFieldValueImpl("increment", n)),
           <<"NumericIncrementFieldValueImpl", "FieldValueDelegate">>)

\* Inputs of the sentinel operations.
Elements == {"x", "y"}
ElementLists == UNION {[1..n -> Elements] : n \in 0..MaxLen}
Operands == {5, 6}
ParseContexts ==
  {[path |-> "f", databaseId |-> d] : d \in DatabaseIds}
  \cup {[path |-> "g", databaseId |-> DatabaseId("P", "D")]}
NoSentinel == [class |-> "none"]
\* Values that no factory of this module produced.
NonSentinels ==
  {[class |-> "Object"],
   [js |-> "undefined"],
   NumericIncrementFieldValueImpl("increment", 5),
   [class |-> "FieldValue", _methodName |-> "FieldValue.increment",
    _delegate |-> NumericIncrementFieldValueImpl("FieldValue.increment", 5)],
   [class |-> "FieldValue", _methodName |-> "FieldValue.delete",
    _delegate |-> DeleteFieldValueImpl("FieldValue.delete")]}

(***************************************************************************)
(* State.                                                                   *)
(***************************************************************************)
VARIABLES
  databaseId,  \* UserDataWriter.databaseId, fixed at construction
  pc,          \* "idle", "running" (inside convertValue) or "done"
  value,       \* the argument of the convertValue call
  behavior,    \* its serverTimestampBehavior
  frame,       \* the value of the innermost convertValue activation
  depth,       \* the number of convertValue activations on the stack
  result,      \* the Outcome of the call, once done
  sentinelA,   \* the caller's first sentinel reference
  sentinelB,   \* the caller's second sentinel reference
  aliased,     \* sentinelA and sentinelB refer to the same object
  lastOp,      \* the sentinel operation called last
  lastArgs,    \* its arguments
  lastRet      \* its outcome

decoderVars == <<databaseId, pc, value, behavior, frame, depth, result>>
fieldValueVars == <<sentinelA, sentinelB, aliased, lastOp, lastArgs, lastRet>>
vars == <<databaseId, pc, value, behavior, frame, depth, result,
          sentinelA, sentinelB, aliased, lastOp, lastArgs, lastRet>>

NoResult == [ok |-> FALSE, val |-> NoValue, err |-> [assertion |-> "pending"],
             logs |-> <<>>, refs |-> <<>>]
NoArgs == [none |-> TRUE]

Init ==
  /\ databaseId \in DatabaseIds
  /\ pc = "idle"
  /\ value = NullValue
  /\ behavior = "none"
  /\ frame = NullValue
  /\ depth = 0
  /\ result = NoResult
  /\ sentinelA = NoSentinel
  /\ sentinelB = NoSentinel
  /\ aliased = FALSE
  /\ lastOp = "none"
  /\ lastArgs = NoArgs
  /\ lastRet = FvThrow([assertion |-> "pending"])

\* A caller invokes convertValue(v, b).
Call(v, b) ==
  /\ pc = "idle"
  /\ pc' = "running"
  /\ value' = v
  /\ behavior' = b
  /\ frame' = v
  /\ depth' = 1
  /\ result' = NoResult
  /\ UNCHANGED databaseId
  /\ UNCHANGED fieldValueVars

\* The activation is at `return this.convertValue(previousValue, ...)`.
AtPreviousCall(v, b) ==
  /\ typeOrder(v) = "ServerTimestampValue"
  /\ b = "previous"
  /\ getPreviousValue(v) # NullPrevious

\* convertServerTimestamp enters convertValue on the previous value.
Descend ==
  /\ pc = "running"
  /\ AtPreviousCall(frame, behavior)
  /\ frame' = getPreviousValue(frame)
  /\ depth' = depth + 1
  /\ UNCHANGED <<databaseId, pc, value, behavior, result>>
  /\ UNCHANGED fieldValueVars

\* The innermost activation completes and every enclosing activation returns:
\* the call ends with the outcome of convertValue(value, behavior).
Complete ==
  /\ pc = "running"
  /\ ~AtPreviousCall(frame, behavior)
  /\ result' = convertValue(databaseId, value, behavior)
  /\ pc' = "done"
  /\ UNCHANGED <<databaseId, value, behavior, frame, depth>>
  /\ UNCHANGED fieldValueVars

\* The caller has taken the result; the writer is ready for the next call.
Finish ==
  /\ pc = "done"
  /\ pc' = "idle"
  /\ value' = NullValue
  /\ behavior' = "none"
  /\ frame' = NullValue
  /\ depth' = 0
  /\ result' = NoResult
  /\ UNCHANGED databaseId
  /\ UNCHANGED fieldValueVars

\* Any caller, any arguments.
CallAny ==
  /\ pc = "idle"
  /\ \E v \in WireValues, b \in ServerTimestampBehaviors : Call(v, b)

Next ==
  \/ CallAny
  \/ Descend
  \/ Complete
  \/ Finish

Spec == Init /\ [][Next]_vars

\* convertValue is synchronous: a call that has started runs on.
FairSpec == Spec /\ WF_vars(Descend) /\ WF_vars(Complete)

TypeOK ==
  /\ databaseId \in DatabaseIds
  /\ pc \in {"idle", "running", "done"}
  /\ typeOrder(value) \in TypeOrder \cup {"Unrecognised"}
  /\ behavior \in ServerTimestampBehaviors
  /\ depth \in 0..(MaxDepth + 1)
  /\ result.ok \in BOOLEAN

\* Each convertServerTimestamp activation on the stack returns what its inner
\* convertValue call returns: the innermost activation decides the outcome.
StepwiseAgrees ==
  pc = "done" => result = convertValue(databaseId, frame, behavior)

(***************************************************************************)
(* The sentinel operations, as a caller holding two references runs them.   *)
(***************************************************************************)
Slots == {"A", "B"}

\* slot = <factory call>: the reference is assigned when the call returns.
Assign(slot, op, args, out) ==
  /\ lastOp' = op
  /\ lastArgs' = [slot |-> slot, args |-> args]
  /\ lastRet' = out
  /\ sentinelA' = IF out.ok /\ slot = "A" THEN out.val ELSE sentinelA
  /\ sentinelB' = IF out.ok /\ slot = "B" THEN out.val ELSE sentinelB
  /\ aliased' = IF out.ok THEN FALSE ELSE aliased
  /\ UNCHANGED decoderVars

DeleteField == \E slot \in Slots : Assign(slot, "deleteField", <<>>, deleteField)

ServerTimestamp ==
  \E slot \in Slots : Assign(slot, "serverTimestamp", <<>>, serverTimestamp)

ArrayUnion ==
  \E slot \in Slots, elements \in ElementLists :
    Assign(slot, "arrayUnion", elements, arrayUnion(elements))

ArrayRemove ==
  \E slot \in Slots, elements \in ElementLists :
    Assign(slot, "arrayRemove", elements, arrayRemove(elements))

Increment ==
  \E slot \in Slots, n \in Operands : Assign(slot, "increment", <<n>>, increment(n))

\* sentinelB = sentinelA
Alias ==
  /\ sentinelA # NoSentinel
  /\ sentinelB' = sentinelA
  /\ aliased' = TRUE
  /\ lastOp' = "alias"
  /\ lastArgs' = NoArgs
  /\ lastRet' = FvReturn(sentinelA, <<>>)
  /\ UNCHANGED <<sentinelA, decoderVars>>

\* sentinelA.isEqual(sentinelB)
IsEqualSentinel ==
  /\ sentinelA # NoSentinel
  /\ sentinelB # NoSentinel
  /\ lastOp' = "isEqual"
  /\ lastArgs' = [this |-> sentinelA, other |-> sentinelB, otherIsSentinel |-> TRUE]
  /\ lastRet' = FvReturn(FieldValueDelegate_isEqual(sentinelA, sentinelB), <<>>)
  /\ UNCHANGED <<sentinelA, sentinelB, aliased, decoderVars>>

\* sentinelA.isEqual(x) for an x that is no sentinel of these factories
IsEqualOther ==
  /\ sentinelA # NoSentinel
  /\ \E x \in NonSentinels :
       /\ lastOp' = "isEqual"
       /\ lastArgs' = [this |-> sentinelA, other |-> x, otherIsSentinel |-> FALSE]
       /\ lastRet' = FvReturn(FieldValueDelegate_isEqual(sentinelA, x), <<>>)
  /\ UNCHANGED <<sentinelA, sentinelB, aliased, decoderVars>>

\* sentinelA._toFieldTransform(context)
ToFieldTransform ==
  /\ sentinelA # NoSentinel
  /\ \E context \in ParseContexts :
       /\ lastOp' = "_toFieldTransform"
       /\ lastArgs' = [this |-> sentinelA, context |-> context]
       /\ lastRet' = FvReturn(FieldValueDelegate_toFieldTransform(sentinelA, context), <<>>)
  /\ UNCHANGED <<sentinelA, sentinelB, aliased, decoderVars>>

FieldValueNext ==
  \/ DeleteField
  \/ ServerTimestamp
  \/ ArrayUnion
  \/ ArrayRemove
  \/ Increment
  \/ Alias
  \/ IsEqualSentinel
  \/ IsEqualOther
  \/ ToFieldTransform

FieldValueSpec == Init /\ [][FieldValueNext]_vars

(***************************************************************************)
(* Properties of the decoder.                                               *)
(***************************************************************************)
IsServerTimestamp(v) == "serverTimestampValue" \in DOMAIN v
HasPrevious(v) == "previousValue" \in DOMAIN v.serverTimestampValue
PreviousOf(v) == v.serverTimestampValue.previousValue

\* The Timestamp each local write time of the model stands for.
DecodedLocalWriteTime(v) ==
  LET lwt == v.serverTimestampValue.localWriteTime
  IN CASE lwt = [seconds |-> JsString("5"), nanos |-> JsNumber(9)] ->
            [t |-> "Timestamp", seconds |-> 5, nanoseconds |-> 9]
       [] lwt = [seconds |-> JsNumber(7), nanos |-> JsNumber(0)] ->
            [t |-> "Timestamp", seconds |-> 7, nanoseconds |-> 0]

\* C1: a finished convertValue call on a ServerTimestamp value returned null
\* under "none", the Timestamp of its localWriteTime under "estimate", and
\* under "previous" the outcome of convertValue(previousValue, "previous"),
\* or null when the value has no previousValue.
C1_ServerTimestampPolicy ==
  (pc = "done" /\ IsServerTimestamp(value)) =>
    CASE behavior = "none" -> result = Return(HostNull)
      [] behavior = "estimate" -> result = Return(DecodedLocalWriteTime(value))
      [] behavior = "previous" ->
           IF HasPrevious(value)
           THEN result = convertValue(databaseId, PreviousOf(value), "previous")
           ELSE result = Return(HostNull)

\* C1 witness: a "previous" call on a value with no previous value returned null.
C1_Witness ==
  /\ pc = "done"
  /\ IsServerTimestamp(value)
  /\ ~HasPrevious(value)
  /\ behavior = "previous"
  /\ result = Return(HostNull)

\* C2: a finished convertValue call on a Reference with a valid resource name
\* succeeded; the reference factory was called once, with the key of the
\* document path (the name without its first 5 segments); key and returned
\* reference are what a writer of any other database obtains; and one
\* diagnostic was logged if the named database is not the writer's, none if it is.
C2_ReferenceSoftFallback ==
  \A r \in ValidReferences :
    (pc = "done" /\ value = RefValue(r.name)) =>
      /\ result.ok
      /\ result.refs = <<[path |-> r.documentPath]>>
      /\ result.val = referenceFactory([path |-> r.documentPath])
      /\ \A d \in DatabaseIds \cup {DatabaseId("Q", "D")} :
           LET other == convertValue(d, value, behavior)
           IN other.ok /\ other.val = result.val /\ other.refs = result.refs
      /\ Len(result.logs) =
           IF r.projectId = databaseId.projectId /\ r.database = databaseId.database
           THEN 0 ELSE 1

\* C2 witness: a reference into another database was decoded with one diagnostic.
C2_Witness ==
  /\ pc = "done"
  /\ value = RefValue(ResourceName("Q", "D", <<"coll", "doc">>))
  /\ result.ok
  /\ result.val = referenceFactory([path |-> <<"coll", "doc">>])
  /\ Len(result.logs) = 1

NumberSingleRepresentation ==
  (pc = "done" /\ typeOrder(value) = "NumberValue"
     /\ ~("integerValue" \in DOMAIN value /\ "doubleValue" \in DOMAIN value)) =>
    result = Return(HostNumber(
               IF "integerValue" \in DOMAIN value
               THEN normalizeNumber(value.integerValue)
               ELSE normalizeNumber(value.doubleValue)))

\* The wire values decoding reaches that are neither containers nor server
\* timestamps it resolves through their previous value, in decoding order.
RECURSIVE Leaves(_, _)
RECURSIVE LeavesOfAll(_, _)
LeavesOfAll(values, b) ==
  IF values = <<>> THEN <<>>
  ELSE Leaves(Head(values), b) \o LeavesOfAll(Tail(values), b)
Leaves(v, b) ==
  CASE "arrayValue" \in DOMAIN v ->
         IF "values" \in DOMAIN v.arrayValue
         THEN LeavesOfAll(v.arrayValue.values, b) ELSE <<>>
    [] "mapValue" \in DOMAIN v ->
         IF "fields" \in DOMAIN v.mapValue
         THEN LeavesOfAll([i \in 1..Len(v.mapValue.fields) |-> v.mapValue.fields[i].value], b)
         ELSE <<>>
    [] IsServerTimestamp(v) /\ b = "previous" /\ HasPrevious(v) -> Leaves(PreviousOf(v), b)
    [] OTHER -> <<v>>

\* A leaf convertValue cannot decode, and the error it fails with.
IsInvalidLeaf(v) ==
  \/ v = UnrecognisedValue
  \/ "referenceValue" \in DOMAIN v /\ v.referenceValue \in InvalidNames
ErrorOfLeaf(v) ==
  IF v = UnrecognisedValue
  THEN [assertion |-> "Invalid value type", value |-> v]
  ELSE [assertion |-> "ReferenceValue is not valid", name |-> v.referenceValue]

\* The keys of the valid references among leaves[1..n].
RECURSIVE KeysOf(_, _)
KeysOf(leaves, n) ==
  IF n = 0 THEN <<>>
  ELSE LET v == leaves[n]
       IN IF "referenceValue" \in DOMAIN v /\ v.referenceValue \in ValidNames
          THEN KeysOf(leaves, n - 1)
               \o <<[path |-> (CHOOSE r \in ValidReferences :
                                 r.name = v.referenceValue).documentPath]>>
          ELSE KeysOf(leaves, n - 1)

FirstInvalid(leaves) ==
  CHOOSE i \in 1..Len(leaves) :
    IsInvalidLeaf(leaves[i]) /\ \A j \in 1..(i - 1) : ~IsInvalidLeaf(leaves[j])

\* C3: when decoding reaches an unrecognised value or a reference with an
\* invalid resource name, at any depth of arrays, maps and "previous" server
\* timestamps, the finished call failed with the error of the first such value,
\* returned no value, and called the reference factory only for the valid
\* references decoded before it.
C3_InvariantViolationsPropagate ==
  LET leaves == Leaves(value, behavior)
  IN (pc = "done" /\ \E i \in 1..Len(leaves) : IsInvalidLeaf(leaves[i])) =>
       /\ ~result.ok
       /\ result.val = NoValue
       /\ result.err = ErrorOfLeaf(leaves[FirstInvalid(leaves)])
       /\ result.refs = KeysOf(leaves, FirstInvalid(leaves) - 1)

\* C3 witness: an array failed at its second element, an invalid reference
\* inside a map, after a valid reference was decoded.
C3_Witness ==
  /\ pc = "done"
  /\ "arrayValue" \in DOMAIN value
  /\ Len(Leaves(value, behavior)) = 2
  /\ "referenceValue" \in DOMAIN Leaves(value, behavior)[1]
  /\ ~IsInvalidLeaf(Leaves(value, behavior)[1])
  /\ IsInvalidLeaf(Leaves(value, behavior)[2])
  /\ value.arrayValue.values[2] # Leaves(value, behavior)[2]
  /\ ~result.ok
  /\ Len(result.refs) = 1

\* A call fails only for an invalid leaf.
FailsOnlyOnInvalidLeaf ==
  LET leaves == Leaves(value, behavior)
  IN (pc = "done" /\ ~result.ok) => \E i \in 1..Len(leaves) : IsInvalidLeaf(leaves[i])

\* The containers inside v, v included, that decoding with b reaches.
RECURSIVE Containers(_, _)
RECURSIVE ContainersOfAll(_, _)
ContainersOfAll(values, b) ==
  IF values = <<>> THEN {}
  ELSE Containers(Head(values), b) \cup ContainersOfAll(Tail(values), b)
Containers(v, b) ==
  CASE "arrayValue" \in DOMAIN v ->
         {v} \cup (IF "values" \in DOMAIN v.arrayValue
                   THEN ContainersOfAll(v.arrayValue.values, b) ELSE {})
    [] "mapValue" \in DOMAIN v ->
         {v} \cup (IF "fields" \in DOMAIN v.mapValue
                   THEN ContainersOfAll(
                          [i \in 1..Len(v.mapValue.fields) |-> v.mapValue.fields[i].value], b)
                   ELSE {})
    [] IsServerTimestamp(v) /\ b = "previous" /\ HasPrevious(v) ->
         Containers(PreviousOf(v), b)
    [] OTHER -> {}

\* The decoding of container w is element-wise, with behavior b.
ElementWise(db, w, b, out) ==
  out.ok =>
    IF "arrayValue" \in DOMAIN w
    THEN LET values == IF "values" \in DOMAIN w.arrayValue
                       THEN w.arrayValue.values ELSE <<>>
         IN /\ out.val.t = "array"
            /\ Len(out.val.elems) = Len(values)
            /\ \A i \in 1..Len(values) :
                 LET e == convertValue(db, values[i], b)
                 IN e.ok /\ out.val.elems[i] = e.val
    ELSE LET fields == IF "fields" \in DOMAIN w.mapValue
                       THEN w.mapValue.fields ELSE <<>>
         IN /\ out.val.t = "object"
            /\ Len(out.val.entries) = Len(fields)
            /\ \A i \in 1..Len(fields) :
                 LET e == convertValue(db, fields[i].value, b)
                 IN /\ e.ok
                    /\ out.val.entries[i].key = fields[i].key
                    /\ out.val.entries[i].value = e.val

\* C7: the finished decoding of an Array or Map, and of every container nested
\* in it, is element-wise with the call's behavior: same length, same order,
\* same field names, each element the decoding of the wire element under that
\* behavior; a container with no values list / no fields decodes to an empty one.
C7_ContainersElementWise ==
  (pc = "done" /\ ("arrayValue" \in DOMAIN value \/ "mapValue" \in DOMAIN value)) =>
    /\ ElementWise(databaseId, value, behavior, result)
    /\ \A w \in Containers(value, behavior) :
         ElementWise(databaseId, w, behavior, convertValue(databaseId, w, behavior))
    /\ value \in {ArrayValueUnset, ArrayValue(<<>>)} => result = Return(HostArray(<<>>))
    /\ value \in {MapValueUnset, MapValue(<<>>)} => result = Return(HostObject(<<>>))

\* C7 witness: under "estimate" an array of a map of a pending server timestamp
\* and of a reference decoded to the array of the map of the estimated
\* Timestamp and of the reference.
C7_Witness ==
  /\ pc = "done"
  /\ behavior = "estimate"
  /\ value = ArrayValue(<<
                MapValue(<<[key |-> "a",
                            value |-> ServerTimestampNoPrevious(TheLocalWriteTime)]>>),
                RefValue(ResourceName("Q", "D", <<"coll", "doc">>))>>)
  /\ result.ok
  /\ result.val = HostArray(<<
                     HostObject(<<[key |-> "a",
                                   value |-> [t |-> "Timestamp", seconds |-> 5,
                                              nanoseconds |-> 9]]>>),
                     referenceFactory([path |-> <<"coll", "doc">>])>>)

\* The first value of a previousValue chain whose previous value is not followed.
RECURSIVE ChainEnd(_)
ChainEnd(v) ==
  IF IsServerTimestamp(v) /\ HasPrevious(v) THEN ChainEnd(PreviousOf(v)) ELSE v

\* The outcome of a "previous" call on a chain of server timestamps.
ChainResolved ==
  (pc = "done" /\ behavior = "previous" /\ IsServerTimestamp(value)) =>
    IF IsServerTimestamp(ChainEnd(value))
    THEN result = Return(HostNull)
    ELSE result = convertValue(databaseId, ChainEnd(value), "previous")

\* C8: a "previous" call on a chain of server timestamps ends with the
\* decoding of the first value of the chain that is no server timestamp, or
\* with null when the chain ends in a server timestamp without previous value;
\* and every convertValue call, under each behavior, ends.
C8_ChainTerminates ==
  /\ []ChainResolved
  /\ (pc = "running") ~> (pc = "done")

\* C8 witness: a chain of two server timestamps over a reference was resolved
\* to the decoding of the reference, three activations deep.
C8_Witness ==
  /\ pc = "done"
  /\ behavior = "previous"
  /\ IsServerTimestamp(value)
  /\ HasPrevious(value)
  /\ IsServerTimestamp(PreviousOf(value))
  /\ HasPrevious(PreviousOf(value))
  /\ "referenceValue" \in DOMAIN ChainEnd(value)
  /\ depth = 3
  /\ result.ok
  /\ result.val.t = "reference"

\* C10: under "none" and "estimate" a finished call on a server timestamp
\* succeeded, logged nothing, called no factory, and returned what it returns
\* for the same value without previousValue, whatever the previous value is;
\* under "previous" the call failed when the previous value is an invalid
\* reference or an unrecognised value.
C10_PreviousValueNotRead ==
  (pc = "done" /\ IsServerTimestamp(value)) =>
    IF behavior \in {"none", "estimate"}
    THEN /\ result.ok
         /\ result.logs = <<>>
         /\ result.refs = <<>>
         /\ result = convertValue(databaseId,
                       ServerTimestampNoPrevious(value.serverTimestampValue.localWriteTime),
                       behavior)
    ELSE (HasPrevious(value) /\ IsInvalidLeaf(PreviousOf(value))) => ~result.ok

\* C10 witness: an "estimate" call on a server timestamp whose previous value
\* is an invalid reference returned the estimate.
C10_Witness ==
  /\ pc = "done"
  /\ behavior = "estimate"
  /\ IsServerTimestamp(value)
  /\ HasPrevious(value)
  /\ PreviousOf(value) = RefValue(Join(<<"coll", "doc">>))
  /\ result = Return(DecodedLocalWriteTime(value))

(***************************************************************************)
(* Properties of the sentinels.                                             *)
(***************************************************************************)
\* The implementation class each factory wraps.
ImplClassOf(factory) ==
  CASE factory = "deleteField" -> "DeleteFieldValueImpl"
    [] factory = "serverTimestamp" -> "ServerTimestampFieldValueImpl"
    [] factory = "arrayUnion" -> "ArrayUnionFieldValueImpl"
    [] factory = "arrayRemove" -> "ArrayRemoveFieldValueImpl"
    [] factory = "increment" -> "NumericIncrementFieldValueImpl"

Factories == {"deleteField", "serverTimestamp", "arrayUnion", "arrayRemove", "increment"}

\* C4: an arrayUnion / arrayRemove call with no element failed with a usage
\* error and constructed nothing; a call with elements returned a sentinel of
\* the matching variant, named after the factory, whose payload is the
\* elements of the call in their order, unparsed.
C4_ArrayFactoriesNeedAnElement ==
  lastOp \in {"arrayUnion", "arrayRemove"} =>
    IF lastArgs.args = <<>>
    THEN /\ ~lastRet.ok
         /\ lastRet.val = NoValue
         /\ lastRet.err.assertion = "invalid-argument"
         /\ lastRet.news = <<>>
    ELSE /\ lastRet.ok
         /\ lastRet.val._methodName = lastOp
         /\ lastRet.val._delegate.class = ImplClassOf(lastOp)
         /\ lastRet.val._delegate._elements = lastArgs.args
         /\ (IF lastArgs.slot = "A" THEN sentinelA ELSE sentinelB) = lastRet.val

\* C4 witness: arrayUnion() failed, and the reference it was to be assigned to
\* still holds the sentinel of an earlier call.
C4_Witness ==
  /\ lastOp = "arrayUnion"
  /\ lastArgs.args = <<>>
  /\ lastArgs.slot = "A"
  /\ ~lastRet.ok
  /\ sentinelA # NoSentinel

\* C5: sentinelA.isEqual(other) returned TRUE exactly when other is a sentinel
\* of the five factories of the same variant with an equal payload (the two
\* sentinels are then equal as records), be it the same object or another
\* one; it returned FALSE for every other value.
C5_SentinelEquality ==
  lastOp = "isEqual" =>
    /\ lastRet.ok
    /\ lastRet.val =
         IF lastArgs.otherIsSentinel
         THEN lastArgs.other = lastArgs.this
         ELSE FALSE

\* C5 witness: two separately built increment(5) compared equal.
C5_Witness ==
  /\ lastOp = "isEqual"
  /\ ~aliased
  /\ lastArgs.otherIsSentinel
  /\ lastArgs.this = increment(5).val
  /\ lastArgs.other = increment(5).val
  /\ lastRet.val = TRUE

\* increment(5) differs from increment(6) and from deleteField().
IncrementsDiffer ==
  (lastOp = "isEqual" /\ lastArgs.otherIsSentinel /\ lastArgs.this = increment(5).val
     /\ lastArgs.other \in {increment(6).val, deleteField.val}) =>
    lastRet.val = FALSE

\* C9: every sentinel a reference holds wraps one implementation of the class
\* of its factory, and carries that implementation's method name, the name of
\* the factory; a _toFieldTransform call returned what the wrapped
\* implementation returns for the same context, and left the sentinel as it was.
C9_SentinelIsFacade ==
  /\ \A s \in {sentinelA, sentinelB} \ {NoSentinel} :
       /\ s._methodName = s._delegate._methodName
       /\ s._methodName \in Factories
       /\ s._delegate.class = ImplClassOf(s._methodName)
  /\ lastOp \in Factories /\ lastRet.ok =>
       /\ lastRet.val._methodName = lastOp
       /\ lastRet.news = <<ImplClassOf(lastOp), "FieldValueDelegate">>
  /\ lastOp = "_toFieldTransform" =>
       /\ lastRet.ok
       /\ lastRet.val = ImplToFieldTransform(lastArgs.this._delegate, lastArgs.context)
       /\ sentinelA = lastArgs.this

\* C9 witness: deleteField()._toFieldTransform(context) returned null.
C9_Witness ==
  /\ lastOp = "_toFieldTransform"
  /\ sentinelA._methodName = "deleteField"
  /\ lastRet.val = NullTransform

====
